---------------------------- MODULE Spec2Model ----------------------------
(***************************************************************************)
(* A model of libdeflate's CRC-32 table generator                          *)
(* (tools/gen_crc32_table.c) and of three helpers of programs/prog_util.c  *)
(* (xopen_for_write, xread, parse_compression_level).                      *)
(*                                                                         *)
(* A uint32_t is modelled as the pair <<hi, lo>> of its upper and lower    *)
(* 16 bits, each in 0..65535, so that all 32 bits are kept.  A byte        *)
(* (uint8_t) is an integer in 0..255.                                      *)
(***************************************************************************)
EXTENDS Integers, Sequences, FiniteSets

(***************************************************************************)
(* 32-bit words                                                            *)
(***************************************************************************)
\* the bitwise exclusive or of two n-bit non-negative integers
RECURSIVE XorBits(_, _, _)
XorBits(a, b, n) ==
    IF n = 0 THEN 0
    ELSE (((a % 2) + (b % 2)) % 2) + 2 * XorBits(a \div 2, b \div 2, n - 1)

\* a ^ b
Xor(a, b) == <<XorBits(a[1], b[1], 16), XorBits(a[2], b[2], 16)>>

\* w >> 1
Shr1(w) == <<w[1] \div 2, (w[2] \div 2) + (w[1] % 2) * 32768>>

\* w >> 8
Shr8(w) == <<w[1] \div 256, (w[2] \div 256) + (w[1] % 256) * 256>>

\* w & 1
Bit0(w) == w[2] % 2

\* (uint8_t)w : the low byte of a word
LowByte(w) == w[2] % 256

\* a byte value widened to uint32_t
ByteWord(b) == <<0, b>>

Zero == <<0, 0>>

\* the values of a uint32_t
Word32 == (0..65535) \X (0..65535)

\* 0xEDB88320, the reflected CRC-32 polynomial
Poly == <<60856, 33568>>

(***************************************************************************)
(* gen_crc32_table.c: the bit and byte steps                               *)
(***************************************************************************)
crc32_update_bit_swapped(remainder, next_bit) ==
    IF (Bit0(remainder) + next_bit) % 2 = 1
    THEN Shr1(remainder)
    ELSE Xor(Shr1(remainder), Poly)

\* (remainder >> 1) ^ (((remainder ^ next_bit) & 1) ? 0xEDB88320 : 0)
crc32_update_bit(remainder, next_bit) ==
    IF (Bit0(remainder) + next_bit) % 2 = 1
    THEN Xor(Shr1(remainder), Poly)
    ELSE Shr1(remainder)

\* for (int j = 0; j < 8; j++, next_byte >>= 1)
\*         remainder = crc32_update_bit(remainder, next_byte & 1);
update_byte_loop[remainder \in Word32, next_byte \in 0..255, j \in 0..8] ==
    IF j = 8 THEN remainder
    ELSE update_byte_loop[crc32_update_bit(remainder, next_byte % 2),
                          next_byte \div 2, j + 1]

\* the parameter is a uint8_t: the argument is converted on the call
crc32_update_byte(remainder, next_byte) ==
    update_byte_loop[remainder, next_byte % 256, 0]

(***************************************************************************)
(* gen_crc32_table.c: main, the three table loops                          *)
(***************************************************************************)
TableBase == 256
TableSize == 2048
RollingZeros == 16

BaseEntry_next(i) == crc32_update_byte(Zero, i + 1)

\* the body of the first loop: crc32_table[i] = crc32_update_byte(0, i)
BaseEntry(i) == crc32_update_byte(Zero, i)

SliceEntry_neighbour(tbl, i) == crc32_update_byte(tbl[i - TableBase + 1], 0)

\* the body of the second loop:
\* crc32_table[i] = crc32_update_byte(crc32_table[i - 0x100], 0)
SliceEntry(tbl, i) == crc32_update_byte(tbl[i - TableBase], 0)

\* for (int j = 0; j < 16; j++) remainder = crc32_update_byte(remainder, 0);
rolling_loop[remainder \in Word32, j \in 0..RollingZeros] ==
    IF j = RollingZeros THEN remainder
    ELSE rolling_loop[crc32_update_byte(remainder, 0), j + 1]

\* the inner loop started at j = 1: one zero byte fewer
RollingEntry_short(i) == rolling_loop[crc32_update_byte(Zero, i), 1]

\* the body of the third loop: the value stored in crc32_rolling[i]
RollingEntry(i) == rolling_loop[crc32_update_byte(Zero, i), 0]

\* the two tables as main leaves them (the state after the three loops)
GeneratedTable[i \in 0..(TableSize - 1)] ==
    IF i < TableBase THEN BaseEntry(i) ELSE SliceEntry(GeneratedTable, i)

GeneratedRolling == [i \in 0..(TableBase - 1) |-> RollingEntry(i)]

(***************************************************************************)
(* State.  Each part of the program has its own variables; a specification *)
(* runs one part and leaves the others at rest.                            *)
(***************************************************************************)
VARIABLES
    \* gen_crc32_table.c, main: the static tables, the loop and its index
    crc32_table, crc32_rolling, g_pc, g_i,
    \* the checksum engine: initial remainder, data, the three results
    c_pc, c_init, c_data, c_bytewise, c_slice4, c_slice8,
    \* crc32_update_byte applied to a, b and a ^ b
    l_pc, l_a, l_b, l_fa, l_fb, l_fab,
    \* the rolling scan of main's test block
    s_pc, str, s_i, remainder, hashes, matches,
    \* parse_compression_level
    p_pc, p_opt_char, p_arg, p_null, p_pos, p_level, p_ret,
    \* xread
    x_pc, x_orig_count, x_count, x_p, x_ret, x_delivered, x_eof, x_err,
    \* xopen_for_write
    o_pc, o_path, o_overwrite, o_tty_err, o_tty_in, o_exists, o_fd, o_name,
    o_unlinks, o_recreated, o_ret

genVars == <<crc32_table, crc32_rolling, g_pc, g_i>>
crcVars == <<c_pc, c_init, c_data, c_bytewise, c_slice4, c_slice8>>
linVars == <<l_pc, l_a, l_b, l_fa, l_fb, l_fab>>
scanVars == <<s_pc, str, s_i, remainder, hashes, matches>>
parseVars == <<p_pc, p_opt_char, p_arg, p_null, p_pos, p_level, p_ret>>
readVars == <<x_pc, x_orig_count, x_count, x_p, x_ret, x_delivered, x_eof, x_err>>
openVars == <<o_pc, o_path, o_overwrite, o_tty_err, o_tty_in, o_exists, o_fd,
              o_name, o_unlinks, o_recreated, o_ret>>
vars == <<genVars, crcVars, linVars, scanVars, parseVars, readVars, openVars>>

\* a part at rest
GenDone ==
    /\ crc32_table = [i \in 0..(TableSize - 1) |-> GeneratedTable[i]]
    /\ crc32_rolling = GeneratedRolling
    /\ g_pc = "done"
    /\ g_i = TableBase

CrcIdle ==
    /\ c_pc = "idle" /\ c_init = Zero /\ c_data = <<>>
    /\ c_bytewise = Zero /\ c_slice4 = Zero /\ c_slice8 = Zero

LinIdle ==
    /\ l_pc = "idle" /\ l_a = Zero /\ l_b = Zero
    /\ l_fa = Zero /\ l_fb = Zero /\ l_fab = Zero

ScanIdle ==
    /\ s_pc = "idle" /\ str = <<>> /\ s_i = 0 /\ remainder = Zero
    /\ hashes = <<>> /\ matches = {}

ParseIdle ==
    /\ p_pc = "idle" /\ p_opt_char = 0 /\ p_arg = <<>> /\ p_null = FALSE
    /\ p_pos = 0 /\ p_level = <<>> /\ p_ret = 0

ReadIdle ==
    /\ x_pc = "idle" /\ x_orig_count = 0 /\ x_count = 0 /\ x_p = 0
    /\ x_ret = 0 /\ x_delivered = 0 /\ x_eof = FALSE /\ x_err = FALSE

OpenIdle ==
    /\ o_pc = "idle" /\ o_path = "NULL" /\ o_overwrite = FALSE
    /\ o_tty_err = FALSE /\ o_tty_in = FALSE /\ o_exists = FALSE
    /\ o_fd = "none" /\ o_name = "unset" /\ o_unlinks = <<>>
    /\ o_recreated = 0 /\ o_ret = 0

\* static storage: both arrays start zeroed
GenInit ==
    /\ crc32_table = [i \in 0..(TableSize - 1) |-> Zero]
    /\ crc32_rolling = [i \in 0..(TableBase - 1) |-> Zero]
    /\ g_pc = "base"
    /\ g_i = 0
    /\ CrcIdle /\ LinIdle /\ ScanIdle /\ ParseIdle /\ ReadIdle /\ OpenIdle

GenBase ==
    /\ g_pc = "base"
    /\ crc32_table' = [crc32_table EXCEPT ![g_i] = BaseEntry(g_i)]
    /\ IF g_i + 1 < TableBase
       THEN g_i' = g_i + 1 /\ g_pc' = "base"
       ELSE g_i' = TableBase /\ g_pc' = "slices"
    /\ UNCHANGED <<crc32_rolling, crcVars, linVars, scanVars, parseVars,
                   readVars, openVars>>

GenSlices ==
    /\ g_pc = "slices"
    /\ crc32_table' = [crc32_table EXCEPT ![g_i] = SliceEntry(crc32_table, g_i)]
    /\ IF g_i + 1 < TableSize
       THEN g_i' = g_i + 1 /\ g_pc' = "slices"
       ELSE g_i' = 0 /\ g_pc' = "rolling"
    /\ UNCHANGED <<crc32_rolling, crcVars, linVars, scanVars, parseVars,
                   readVars, openVars>>

GenRolling ==
    /\ g_pc = "rolling"
    /\ crc32_rolling' = [crc32_rolling EXCEPT ![g_i] = RollingEntry(g_i)]
    /\ IF g_i + 1 < TableBase
       THEN g_i' = g_i + 1 /\ g_pc' = "rolling"
       ELSE g_i' = TableBase /\ g_pc' = "done"
    /\ UNCHANGED <<crc32_table, crcVars, linVars, scanVars, parseVars,
                   readVars, openVars>>

GenNext == GenBase \/ GenSlices \/ GenRolling

SpecGen == GenInit /\ [][GenNext]_vars


\* r after k more zero bytes, bit by bit
ZeroBytes[r \in Word32, k \in Nat] ==
    IF k = 0 THEN r ELSE ZeroBytes[crc32_update_byte(r, 0), k - 1]

\* the window width of the rolling checksum (the test block of main)
W == 16

\* C4: once the table loops are done, crc32_table[256*k + i] is the remainder
\* of byte i followed by k zero bytes, for every group k in 0..7 and every
\* byte i; crc32_table[i] is crc32_update_byte(0, i) and crc32_table[0] is 0.
\* (During the second loop the entry just written is checked, at the end of
\* main all of them.)
C4_TableGroups ==
    /\ (g_pc = "slices" /\ g_i > TableBase) =>
          crc32_table[g_i - 1] =
              ZeroBytes[crc32_update_byte(Zero, (g_i - 1) % 256), (g_i - 1) \div 256]
    /\ g_pc = "done" =>
          /\ \A k \in 0..7 : \A i \in 0..255 :
                crc32_table[256 * k + i] = ZeroBytes[crc32_update_byte(Zero, i), k]
          /\ \A i \in 0..255 : crc32_table[i] = crc32_update_byte(Zero, i)
          /\ crc32_table[0] = Zero

C4_Witness ==
    /\ g_pc = "done"
    /\ crc32_table[256 * 7 + 255] # Zero
    /\ crc32_table[256 * 7 + 255] # crc32_table[256 * 6 + 255]

\* C3 as stated: once generation is done, crc32_rolling[i] is the remainder of
\* byte i followed by exactly W - 1 = 15 zero bytes.
C3_Original ==
    g_pc = "done" =>
        \A i \in 0..255 :
            crc32_rolling[i] = ZeroBytes[crc32_update_byte(Zero, i), W - 1]

\* C3 amended: once generation is done, crc32_rolling[i] is the remainder of
\* byte i followed by exactly W = 16 zero bytes.
C3_Amended ==
    g_pc = "done" =>
        \A i \in 0..255 :
            crc32_rolling[i] = ZeroBytes[crc32_update_byte(Zero, i), W]

C3_Witness ==
    /\ g_pc = "done"
    /\ crc32_rolling[255] # Zero
    /\ crc32_rolling[255] # ZeroBytes[crc32_update_byte(Zero, 255), W - 1]

\* the stepwise generation ends in the tables the other specifications start from
GenAgrees ==
    /\ g_pc = "done" => GenDone
    /\ (g_pc = "rolling" /\ g_i = 0) =>
          /\ crc32_table = [i \in 0..(TableSize - 1) |-> GeneratedTable[i]]
          /\ crc32_rolling = [i \in 0..(TableBase - 1) |-> Zero]

(***************************************************************************)
(* crc32_update_byte as a function of the remainder: it is applied to two  *)
(* remainders a and b and to a ^ b, each with a zero byte.                 *)
(***************************************************************************)
\* the remainders tried: every single bit, and some mixed patterns
SampleWords ==
    {<<0, 2^n>> : n \in 0..15} \cup {<<2^n, 0>> : n \in 0..15} \cup
    {Zero, <<65535, 65535>>, Poly, <<4660, 22136>>, <<30471, 12438>>}

LinInit ==
    /\ GenDone
    /\ l_pc = "chosen"
    /\ l_a \in SampleWords
    /\ l_b \in SampleWords
    /\ l_fa = Zero /\ l_fb = Zero /\ l_fab = Zero
    /\ CrcIdle /\ ScanIdle /\ ParseIdle /\ ReadIdle /\ OpenIdle

LinApply ==
    /\ l_pc = "chosen"
    /\ l_fa' = crc32_update_byte(l_a, 0)
    /\ l_fb' = crc32_update_byte(l_b, 0)
    /\ l_fab' = crc32_update_byte(Xor(l_a, l_b), 0)
    /\ l_pc' = "applied"
    /\ UNCHANGED <<l_a, l_b, genVars, crcVars, scanVars, parseVars, readVars,
                   openVars>>

LinNext == LinApply

SpecLin == LinInit /\ [][LinNext]_vars

\* C5: crc32_update_byte(a ^ b, 0) = crc32_update_byte(a, 0) ^
\* crc32_update_byte(b, 0) for the remainders a and b, and
\* crc32_update_byte(0, 0) = 0.
C5_Linear ==
    l_pc = "applied" =>
        /\ l_fab = Xor(l_fa, l_fb)
        /\ (l_a = Zero => l_fa = Zero)

C5_Witness ==
    /\ l_pc = "applied"
    /\ l_a = <<65535, 65535>> /\ l_b = <<0, 1>>
    /\ l_fa # Zero /\ l_fb # Zero /\ l_fab # l_fa
    /\ l_fab = Xor(l_fa, l_fb)

(***************************************************************************)
(* The checksum engine: the byte-at-a-time reference and the table-driven  *)
(* slice-by-4 and slice-by-8 computations over crc32_table.                *)
(***************************************************************************)
MaxLen == 17

\* byte k (0 = least significant) of a remainder; bytes past the fourth are 0
RemainderByte(r, k) ==
    CASE k = 0 -> r[2] % 256
      [] k = 1 -> r[2] \div 256
      [] k = 2 -> r[1] % 256
      [] k = 3 -> r[1] \div 256
      [] OTHER -> 0

\* crc32_update_byte applied to each byte of data in turn (data[1] first)
crc32_bytewise(r, data) ==
    LET run[pos \in 0..Len(data), acc \in Word32] ==
            IF pos = Len(data) THEN acc
            ELSE run[pos + 1, crc32_update_byte(acc, data[pos + 1])]
    IN run[0, r]

\* one byte through the base table: (r >> 8) ^ table[(uint8_t)(r ^ b)]
TableByteStep(tbl, r, b) ==
    Xor(Shr8(r), tbl[XorBits(LowByte(r), b, 8)])

\* N bytes at offset pos in one step: the XOR over k in [0, N) of
\* group[N-1-k][data[pos+k] ^ byte k of r]
SliceStep(tbl, N, r, data, pos) ==
    LET fold[k \in 0..N] ==
            IF k = N THEN Zero
            ELSE Xor(tbl[TableBase * (N - 1 - k) +
                         XorBits(data[pos + k + 1], RemainderByte(r, k), 8)],
                     fold[k + 1])
    IN fold[0]

\* full slices of N bytes while they fit, then the leftover bytes one by one
crc32_slice(tbl, N, r, data) ==
    LET run[pos \in 0..Len(data), acc \in Word32] ==
            IF Len(data) - pos >= N
            THEN run[pos + N, SliceStep(tbl, N, acc, data, pos)]
            ELSE IF pos < Len(data)
                 THEN run[pos + 1, TableByteStep(tbl, acc, data[pos + 1])]
                 ELSE acc
    IN run[0, r]

\* the inputs tried: every length up to MaxLen, bytes a, a+b, a+2b, ... mod 256
SeedBytes == {0, 1, 59, 255}
InitRemainders == {Zero, <<65535, 65535>>, Poly, <<4660, 22136>>}
RampData(len, a, b) == [k \in 1..len |-> (a + (k - 1) * b) % 256]

CrcInit ==
    /\ GenDone
    /\ c_pc = "ready"
    /\ c_init \in InitRemainders
    /\ \E len \in 0..MaxLen : \E a \in SeedBytes : \E b \in SeedBytes :
          c_data = RampData(len, a, b)
    /\ c_bytewise = Zero /\ c_slice4 = Zero /\ c_slice8 = Zero
    /\ LinIdle /\ ScanIdle /\ ParseIdle /\ ReadIdle /\ OpenIdle

CrcCompute ==
    /\ c_pc = "ready"
    /\ c_bytewise' = crc32_bytewise(c_init, c_data)
    /\ c_slice4' = crc32_slice(crc32_table, 4, c_init, c_data)
    /\ c_slice8' = crc32_slice(crc32_table, 8, c_init, c_data)
    /\ c_pc' = "computed"
    /\ UNCHANGED <<c_init, c_data, genVars, linVars, scanVars, parseVars,
                   readVars, openVars>>

CrcNext == CrcCompute

SpecCrc == CrcInit /\ [][CrcNext]_vars

\* C1: for every initial remainder and every byte sequence, of any length,
\* slice-by-4 and slice-by-8 (leftover bytes one at a time) return the
\* remainder that crc32_update_byte applied to each byte in turn returns.
C1_SlicesAgree ==
    c_pc = "computed" =>
        /\ c_slice4 = c_bytewise
        /\ c_slice8 = c_bytewise

\* a length that takes two slice-by-8 steps and a leftover byte
C1_Witness ==
    /\ c_pc = "computed"
    /\ Len(c_data) = 17
    /\ c_init = <<65535, 65535>>
    /\ c_data[2] = 58
    /\ c_bytewise # c_init
    /\ c_slice8 = c_bytewise /\ c_slice4 = c_bytewise

(***************************************************************************)
(* gen_crc32_table.c, main: the third loop on its own, from the state the  *)
(* first two loops leave (GenAgrees: the stepwise generation reaches it).  *)
(***************************************************************************)
RollingInit ==
    /\ crc32_table = [i \in 0..(TableSize - 1) |-> GeneratedTable[i]]
    /\ crc32_rolling = [i \in 0..(TableBase - 1) |-> Zero]
    /\ g_pc = "rolling"
    /\ g_i = 0
    /\ CrcIdle /\ LinIdle /\ ScanIdle /\ ParseIdle /\ ReadIdle /\ OpenIdle

SpecRollingTable == RollingInit /\ [][GenRolling]_vars

(***************************************************************************)
(* gen_crc32_table.c, main: the rolling scan of the test block.  str[i] of *)
(* the source is str[i + 1] here, read as a byte in 0..255; hashes is      *)
(* indexed as in the source.                                               *)
(***************************************************************************)
MaxSlide == 20

\* the string of the test block
TestString ==
    <<97, 98, 99, 100, 101, 102, 103, 104, 105, 106, 107, 108, 109, 110,
      111, 112, 32, 97, 111, 101, 117, 97, 111, 101, 117, 32, 97, 98,
      99, 100, 101, 102, 103, 104, 105, 106, 107, 108, 109, 110, 111,
      112, 32, 97, 111, 101, 117, 97, 111, 101, 117, 104, 97, 111,
      110, 101, 117, 104, 97, 111, 101, 117, 32, 97, 111, 101, 117,
      97, 111, 101, 117, 104, 97, 111, 110, 101, 117, 104, 97, 111,
      101, 117>>

Repeat(b, n) == [k \in 1..n |-> b]

\* 16 'A', 16 'B', 16 'A'
ABAStream == Repeat(65, W) \o Repeat(66, W) \o Repeat(65, W)

ScanBytes == {0, 65, 255}

\* the streams scanned: the test string, three blocks x y x of one byte
\* each, and ramps a, a+b, a+2b, ... mod 256 of W + MaxSlide bytes
Streams ==
    {TestString, ABAStream} \cup
    {Repeat(x, W) \o Repeat(y, W) \o Repeat(x, W) : x \in ScanBytes, y \in ScanBytes} \cup
    {RampData(W + MaxSlide, a, b) : a \in {0, 97}, b \in {1, 59, 128}}

\* the checksum of the W bytes at offsets [p, p + W), from remainder 0
WindowAt(s, p) == SubSeq(s, p + 1, p + W)
ScratchCrc(s, p) == crc32_bytewise(Zero, WindowAt(s, p))

\* hashes[len] is never initialised: what a slot holds before it is written
Indeterminate ==
    {Zero, <<65535, 65535>>, ScratchCrc(ABAStream, 0), ScratchCrc(ABAStream, W)}

ScanInit ==
    /\ GenDone
    /\ s_pc = "fill"
    /\ str \in Streams
    /\ s_i = 0
    /\ remainder = Zero
    /\ \E g \in Indeterminate : hashes = [j \in 0..(Len(str) - 1) |-> g]
    /\ matches = {}
    /\ CrcIdle /\ LinIdle /\ ParseIdle /\ ReadIdle /\ OpenIdle

\* for (; i < 16; i++) remainder = crc32_update_byte(remainder, str[i]);
ScanFill ==
    /\ s_pc = "fill"
    /\ remainder' = crc32_update_byte(remainder, str[s_i + 1])
    /\ s_i' = s_i + 1
    /\ s_pc' = IF s_i + 1 < W THEN "fill"
               ELSE IF s_i + 1 < Len(str) THEN "roll" ELSE "done"
    /\ UNCHANGED <<str, hashes, matches, genVars, crcVars, linVars, parseVars,
                   readVars, openVars>>

Roll_incoming(rolling, r, incoming, outgoing) ==
    Xor(crc32_update_byte(r, incoming), rolling[incoming])

\* remainder = crc32_update_byte(remainder, str[i]) ^ crc32_rolling[str[i - 16]]
Roll(rolling, r, incoming, outgoing) ==
    Xor(crc32_update_byte(r, incoming), rolling[outgoing])

\* one iteration of the second loop: roll, store, compare with hashes[0 .. i-1]
\* and print MATCH j-15, i-15 for each equal one
ScanRoll ==
    /\ s_pc = "roll"
    /\ LET r == Roll(crc32_rolling, remainder, str[s_i + 1], str[s_i - W + 1])
           h == [hashes EXCEPT ![s_i] = r]
       IN /\ remainder' = r
          /\ hashes' = h
          /\ matches' = matches \cup
                {<<j - (W - 1), s_i - (W - 1)>> : j \in {k \in 0..(s_i - 1) : h[k] = r}}
    /\ s_i' = s_i + 1
    /\ s_pc' = IF s_i + 1 < Len(str) THEN "roll" ELSE "done"
    /\ UNCHANGED <<str, genVars, crcVars, linVars, parseVars, readVars, openVars>>

ScanNext == ScanFill \/ ScanRoll

SpecScan == ScanInit /\ [][ScanNext]_vars

\* C2: after every roll the remainder is the checksum computed from scratch,
\* from remainder 0, over the W = 16 bytes of the new window.
C2_RollIsScratch ==
    (s_pc \in {"roll", "done"} /\ s_i >= W) =>
        remainder = ScratchCrc(str, s_i - W)

C2_Witness ==
    /\ s_pc = "done"
    /\ str = ABAStream
    /\ s_i = 3 * W
    /\ remainder = ScratchCrc(str, 2 * W)
    /\ remainder # Zero

\* C6: when the scan is done, every two offsets a < b whose 16-byte windows
\* are byte-identical have been reported, the window at offset 0 included;
\* for 16 'A', 16 'B', 16 'A', offsets 0 and 32 are reported and offset 16 is
\* reported with neither.
C6_ScanReports ==
    s_pc = "done" =>
        /\ \A a \in 0..(Len(str) - W) : \A b \in (a + 1)..(Len(str) - W) :
              WindowAt(str, a) = WindowAt(str, b) => <<a, b>> \in matches
        /\ str = ABAStream =>
              /\ <<0, 32>> \in matches
              /\ <<0, 16>> \notin matches
              /\ <<16, 32>> \notin matches

(***************************************************************************)
(* prog_util.c: parse_compression_level.  Characters are their codes       *)
(* ('0' = 48, '9' = 57, the terminating '\0' = 0); arg is the text before  *)
(* its terminator.  unsigned long is kept at its width: level is its       *)
(* 16-bit limbs, least significant first, and arithmetic wraps.            *)
(***************************************************************************)
ULongLimbs == 4
MaxLevel == 12
MaxArgLen == 2

ULong(n) == [k \in 1..ULongLimbs |-> IF k = 1 THEN n ELSE 0]

\* (level * 10) + d in unsigned long arithmetic: the carry out of the top
\* limb is lost
MulAdd10(level, d) ==
    LET limb[k \in 1..(ULongLimbs + 1), carry \in Nat] ==
            IF k > ULongLimbs THEN <<>>
            ELSE <<(level[k] * 10 + carry) % 65536>> \o
                 limb[k + 1, (level[k] * 10 + carry) \div 65536]
    IN limb[1, d]

\* level < 1 || level > 12
LevelOutOfRange(level) ==
    \/ \E k \in 2..ULongLimbs : level[k] # 0
    \/ level[1] < 1
    \/ level[1] > MaxLevel

\* *p, with the terminator after the last character
CharAt(s, pos) == IF pos <= Len(s) THEN s[pos] ELSE 0

IsDigit(c) == c >= 48 /\ c <= 57

RECURSIVE StringsUpTo(_, _)
StringsUpTo(chars, n) ==
    IF n = 0 THEN {<<>>}
    ELSE LET shorter == StringsUpTo(chars, n - 1)
         IN shorter \cup {Append(s, c) : s \in shorter, c \in chars}

\* '0', '1', '2', '3', '9', 'x'
ArgChars == {48, 49, 50, 51, 57, 120}

\* long digit strings: after a leading '1' the first three are 2^64 + 5,
\* 2^64 and 2^64 + 12
LongArgs ==
    {<<56, 52, 52, 54, 55, 52, 52, 48, 55, 51, 55, 48, 57, 53, 53, 49, 54, 50, 49>>,
     <<56, 52, 52, 54, 55, 52, 52, 48, 55, 51, 55, 48, 57, 53, 53, 49, 54, 49, 54>>,
     <<56, 52, 52, 54, 55, 52, 52, 48, 55, 51, 55, 48, 57, 53, 53, 49, 54, 50, 56>>,
     <<57, 57, 57, 57, 57, 57, 57, 57, 57, 57, 57, 57, 57, 57, 57, 57, 57, 57, 57>>,
     <<48, 48, 48, 48, 48, 48, 48, 48, 48, 48, 48, 48, 48, 48, 48, 48, 48, 49, 50>>}

ParseInit ==
    /\ GenDone
    /\ p_pc = "enter"
    /\ p_opt_char \in 48..57
    /\ \/ p_null = TRUE /\ p_arg = <<>>
       \/ p_null = FALSE /\ p_arg \in StringsUpTo(ArgChars, MaxArgLen) \cup LongArgs
    /\ p_pos = 0
    /\ p_level = ULong(0)
    /\ p_ret = 0
    /\ CrcIdle /\ LinIdle /\ ScanIdle /\ ReadIdle /\ OpenIdle

\* unsigned long level = opt_char - '0'; if (arg == NULL) arg = ""; p = arg
ParseEnter ==
    /\ p_pc = "enter"
    /\ p_level' = ULong(p_opt_char - 48)
    /\ p_null' = FALSE
    /\ p_pos' = 1
    /\ p_pc' = "scan"
    /\ UNCHANGED <<p_opt_char, p_arg, p_ret, genVars, crcVars, linVars,
                   scanVars, readVars, openVars>>

\* one iteration of: for (p = arg; *p >= '0' && *p <= '9'; p++)
ParseDigit ==
    /\ p_pc = "scan"
    /\ IsDigit(CharAt(p_arg, p_pos))
    /\ p_level' = MulAdd10(p_level, CharAt(p_arg, p_pos) - 48)
    /\ p_pos' = p_pos + 1
    /\ UNCHANGED <<p_pc, p_opt_char, p_arg, p_null, p_ret, genVars, crcVars,
                   linVars, scanVars, readVars, openVars>>

\* the value returned once the loop has stopped at *p
ParseResult(level, c) ==
    IF LevelOutOfRange(level) \/ c # 0 THEN 0 ELSE level[1]

ParseReturn ==
    /\ p_pc = "scan"
    /\ ~IsDigit(CharAt(p_arg, p_pos))
    /\ p_ret' = ParseResult(p_level, CharAt(p_arg, p_pos))
    /\ p_pc' = "returned"
    /\ UNCHANGED <<p_opt_char, p_arg, p_null, p_pos, p_level, genVars, crcVars,
                   linVars, scanVars, readVars, openVars>>

ParseNext == ParseEnter \/ ParseDigit \/ ParseReturn

SpecParse == ParseInit /\ [][ParseNext]_vars

\* the decimal text: opt_char followed by arg
ParseText == <<p_opt_char>> \o p_arg

AllDigits(t) == \A k \in 1..Len(t) : IsDigit(t[k])

\* the integer a digit string denotes, or MaxLevel + 1 when it is larger
CappedValue(t) ==
    LET val[k \in 0..Len(t)] ==
            IF k = 0 THEN 0
            ELSE IF val[k - 1] * 10 + (t[k] - 48) > MaxLevel THEN MaxLevel + 1
                 ELSE val[k - 1] * 10 + (t[k] - 48)
    IN val[Len(t)]

\* C7: parse_compression_level returns n # 0 only if the text is all digits
\* and denotes n with 1 <= n <= 12 (and then it returns n); for every other
\* text, a value above 12 of any number of digits included, it returns 0.
C7_ParseLevel ==
    p_pc = "returned" =>
        IF AllDigits(ParseText) /\ CappedValue(ParseText) \in 1..MaxLevel
        THEN p_ret = CappedValue(ParseText)
        ELSE p_ret = 0

(***************************************************************************)
(* prog_util.c: xread.  Each step is one pass of the loop with the result  *)
(* the underlying read gives: a count in 1..request, 0, or an error.       *)
(***************************************************************************)
INT_MAX == 2147483647
MaxCount == 12

Min(a, b) == IF a < b THEN a ELSE b

\* the third argument of read: MIN(count, INT_MAX)
ReadRequest(count) == Min(count, INT_MAX)

XreadResult_orig(orig_count, count) == orig_count

\* return orig_count - count;
XreadResult(orig_count, count) == orig_count - count

ReadInit ==
    /\ GenDone
    /\ x_pc = "loop"
    /\ x_orig_count \in 0..MaxCount
    /\ x_count = x_orig_count
    /\ x_p = 0
    /\ x_ret = 0
    /\ x_delivered = 0
    /\ x_eof = FALSE
    /\ x_err = FALSE
    /\ CrcIdle /\ LinIdle /\ ScanIdle /\ ParseIdle /\ OpenIdle

\* read returned res > 0: p += res; count -= res;
XreadSome ==
    /\ x_pc = "loop"
    /\ x_count # 0
    /\ \E res \in 1..ReadRequest(x_count) :
          /\ x_p' = x_p + res
          /\ x_count' = x_count - res
          /\ x_delivered' = x_delivered + res
    /\ UNCHANGED <<x_pc, x_orig_count, x_ret, x_eof, x_err, genVars, crcVars,
                   linVars, scanVars, parseVars, openVars>>

\* read returned 0: break, then return orig_count - count
XreadEof ==
    /\ x_pc = "loop"
    /\ x_count # 0
    /\ x_eof' = TRUE
    /\ x_ret' = XreadResult(x_orig_count, x_count)
    /\ x_pc' = "returned"
    /\ UNCHANGED <<x_orig_count, x_count, x_p, x_delivered, x_err, genVars,
                   crcVars, linVars, scanVars, parseVars, openVars>>

\* read returned res < 0: return -1
XreadError ==
    /\ x_pc = "loop"
    /\ x_count # 0
    /\ x_err' = TRUE
    /\ x_ret' = -1
    /\ x_pc' = "returned"
    /\ UNCHANGED <<x_orig_count, x_count, x_p, x_delivered, x_eof, genVars,
                   crcVars, linVars, scanVars, parseVars, openVars>>

\* count == 0: the loop ends, return orig_count - count
XreadFull ==
    /\ x_pc = "loop"
    /\ x_count = 0
    /\ x_ret' = XreadResult(x_orig_count, x_count)
    /\ x_pc' = "returned"
    /\ UNCHANGED <<x_orig_count, x_count, x_p, x_delivered, x_eof, x_err,
                   genVars, crcVars, linVars, scanVars, parseVars, openVars>>

ReadNext == XreadSome \/ XreadEof \/ XreadError \/ XreadFull

SpecRead == ReadInit /\ [][ReadNext]_vars

\* C8: xread returns count exactly when all count bytes were read, a short
\* count (possibly 0) exactly when read returned 0 before count bytes were
\* obtained, and -1 exactly when a read returned an error; a non-negative
\* return value is the sum of the bytes the successful reads delivered.
C8_XreadResult ==
    x_pc = "returned" =>
        /\ (x_ret = x_orig_count) <=> (x_delivered = x_orig_count /\ ~x_err)
        /\ (x_ret >= 0 /\ x_ret < x_orig_count) <=>
               (x_eof /\ x_delivered < x_orig_count)
        /\ (x_ret = -1) <=> x_err
        /\ x_ret >= 0 => (x_ret = x_delivered /\ x_p = x_delivered)

\* three bytes of eight delivered in two reads, then end of file
C8_Witness ==
    /\ x_pc = "returned"
    /\ x_orig_count = 8
    /\ x_eof
    /\ x_delivered = 3
    /\ x_ret = 3

(***************************************************************************)
(* prog_util.c: xopen_for_write.  The file at path exists or not; another  *)
(* process may create it again between the unlink and the retry.  o_fd     *)
(* tells how strm->fd was obtained, o_unlinks records every call of        *)
(* tunlink with what allowed it.                                           *)
(***************************************************************************)
MaxRecreate == 2

ExistsOutcome_unasked(overwrite, tty_err, tty_in, answer) ==
    IF ~overwrite /\ (~tty_err \/ ~tty_in) THEN "refuse" ELSE "unlink"

\* what follows EEXIST: if (!overwrite) { no terminal: err; prompt and
\* getchar() != 'y': err; } then tunlink
ExistsOutcome(overwrite, tty_err, tty_in, answer) ==
    IF ~overwrite
    THEN IF ~tty_err \/ ~tty_in THEN "refuse"
         ELSE IF answer # "y" THEN "declined"
         ELSE "unlink"
    ELSE "unlink"

\* getchar is reached only past both isatty tests, with overwrite false
Answers(overwrite, tty_err, tty_in) ==
    IF ~overwrite /\ tty_err /\ tty_in THEN {"y", "n"} ELSE {"none"}

OpenInit ==
    /\ GenDone
    /\ o_pc = "enter"
    /\ o_path \in {"NULL", "file"}
    /\ o_overwrite \in BOOLEAN
    /\ o_tty_err \in BOOLEAN
    /\ o_tty_in \in BOOLEAN
    /\ o_exists \in BOOLEAN
    /\ o_fd = "unset"
    /\ o_name = "unset"
    /\ o_unlinks = <<>>
    /\ o_recreated = 0
    /\ o_ret = 0
    /\ CrcIdle /\ LinIdle /\ ScanIdle /\ ParseIdle /\ ReadIdle

\* up to the retry label: standard output for a NULL path, else quote_path,
\* which may fail (goto err: free(NULL), return -1)
OpenEnter ==
    /\ o_pc = "enter"
    /\ \/ /\ o_path = "NULL"
          /\ o_name' = "static" /\ o_fd' = "stdout"
          /\ o_ret' = 0 /\ o_pc' = "returned"
       \/ /\ o_path # "NULL"
          /\ \/ o_name' = "allocated" /\ o_pc' = "try" /\ o_ret' = o_ret
             \/ o_name' = "null" /\ o_pc' = "returned" /\ o_ret' = -1
          /\ o_fd' = o_fd
    /\ UNCHANGED <<o_path, o_overwrite, o_tty_err, o_tty_in, o_exists,
                   o_unlinks, o_recreated, genVars, crcVars, linVars,
                   scanVars, parseVars, readVars>>

\* retry: topen(path, ... | O_CREAT | O_EXCL, 0644): creates the file if it
\* is not there, fails with EEXIST if it is, or fails with another errno
OpenTry ==
    /\ o_pc = "try"
    /\ \/ /\ ~o_exists
          /\ o_fd' = "excl" /\ o_exists' = TRUE
          /\ o_ret' = 0 /\ o_pc' = "returned" /\ o_name' = o_name
       \/ /\ o_exists
          /\ o_fd' = "failed" /\ o_exists' = o_exists
          /\ o_ret' = o_ret /\ o_pc' = "exists" /\ o_name' = o_name
       \/ /\ o_fd' = "failed" /\ o_exists' = o_exists
          /\ o_ret' = -1 /\ o_pc' = "returned" /\ o_name' = "freed"
    /\ UNCHANGED <<o_path, o_overwrite, o_tty_err, o_tty_in, o_unlinks,
                   o_recreated, genVars, crcVars, linVars, scanVars,
                   parseVars, readVars>>

\* errno == EEXIST: the overwrite test, the prompt, tunlink, goto retry
OpenExists ==
    /\ o_pc = "exists"
    /\ \E answer \in Answers(o_overwrite, o_tty_err, o_tty_in) :
          IF ExistsOutcome(o_overwrite, o_tty_err, o_tty_in, answer) = "unlink"
          THEN \E unlinked \in BOOLEAN :
                  /\ o_unlinks' = Append(o_unlinks,
                        [overwrite |-> o_overwrite, tty_err |-> o_tty_err,
                         tty_in |-> o_tty_in, answer |-> answer,
                         path |-> o_path])
                  /\ IF unlinked
                     THEN /\ o_exists' = FALSE /\ o_pc' = "try"
                          /\ o_ret' = o_ret /\ o_name' = o_name
                     ELSE /\ o_exists' = o_exists /\ o_pc' = "returned"
                          /\ o_ret' = -1 /\ o_name' = "freed"
          ELSE /\ o_unlinks' = o_unlinks /\ o_exists' = o_exists
               /\ o_pc' = "returned" /\ o_ret' = -1 /\ o_name' = "freed"
    /\ UNCHANGED <<o_path, o_overwrite, o_tty_err, o_tty_in, o_fd, o_recreated,
                   genVars, crcVars, linVars, scanVars, parseVars, readVars>>

\* another process creates the file again before the retry
EnvRecreate ==
    /\ o_pc = "try"
    /\ ~o_exists
    /\ o_recreated < MaxRecreate
    /\ o_exists' = TRUE
    /\ o_recreated' = o_recreated + 1
    /\ UNCHANGED <<o_pc, o_path, o_overwrite, o_tty_err, o_tty_in, o_fd, o_name,
                   o_unlinks, o_ret, genVars, crcVars, linVars, scanVars,
                   parseVars, readVars>>

OpenNext == OpenEnter \/ OpenTry \/ OpenExists \/ EnvRecreate

SpecOpen == OpenInit /\ [][OpenNext]_vars

\* C9: every tunlink, in whichever iteration, is of the non-NULL path and was
\* allowed by overwrite or, with overwrite false, by both standard error and
\* standard input being terminals and the answer 'y'; a return of 0 for a
\* non-NULL path has a descriptor from this call's exclusive create; a return
\* of -1 leaves no descriptor of this call open.
C9_OpenForWrite ==
    /\ \A k \in 1..Len(o_unlinks) :
          /\ o_unlinks[k].path # "NULL"
          /\ \/ o_unlinks[k].overwrite
             \/ /\ o_unlinks[k].tty_err /\ o_unlinks[k].tty_in
                /\ o_unlinks[k].answer = "y"
    /\ (o_pc = "returned" /\ o_ret = 0 /\ o_path # "NULL") => o_fd = "excl"
    /\ (o_pc = "returned" /\ o_ret = -1) => o_fd \in {"unset", "failed"}
    /\ o_pc = "try" => o_fd \in {"unset", "failed"}

\* two iterations each allowed by a 'y', then the exclusive create
C9_Witness ==
    /\ o_pc = "returned" /\ o_ret = 0 /\ o_path = "file"
    /\ ~o_overwrite
    /\ Len(o_unlinks) = 2
    /\ o_unlinks[2].answer = "y"
    /\ o_fd = "excl"

=============================================================================
